---- MODULE Spec2Model ----
(***************************************************************************)
(* Model of package toxdynboot (xamino/tox-dynboot), current version:       *)
(* FetchAlive, FetchAnyAlive, FetchFirstAlive and isAlive of src/main.go    *)
(* lines 346-428 and 513-528, with the ToxNode of src/unnamed/part_003.     *)
(* Further down: FetchAll and parseNodes (src/main.go:317-319, 433-505)     *)
(* under ParseSpec, FetchAlive of the earlier version (src/main.go:184-211) *)
(* under SpecUp, and the calls in time under TimedSpec.                     *)
(*                                                                          *)
(* One behaviour is one call of one of the three public functions.  The     *)
(* caller's goroutine ("main") and the goroutines it starts are interleaved *)
(* step by step; the channel c is unbuffered, so a send and its receive are *)
(* one joint step.                                                          *)
(*                                                                          *)
(* A Go string is modelled as the sequence of its words, so that            *)
(* strings.Contains is a search for a contiguous run of words.  A pointer   *)
(* is modelled as a sequence of length 0 (nil) or 1 (the value pointed to). *)
(***************************************************************************)
EXTENDS Integers, Sequences, FiniteSets, TLC

\* Largest number of rows the registry yields in the model.
MaxNodes == 3

\* The timeout the caller passes, in units of time.
Timeout == 2

\* The longest the fetch of the page takes, in units of time.
MaxFetchTime == 1

(***************************************************************************)
(* Data                                                                     *)
(***************************************************************************)

\* ToxNode (src/unnamed/part_003:8-15).
ToxNode(ip4, port, who) ==
    [IPv4 |-> ip4, IPv6 |-> <<>>, Port |-> port, PublicKey |-> <<"AB", "CD">>,
     Maintainer |-> <<who>>, Location |-> <<"DE">>]

\* The rows a registry table may hold: a node given by its address, and one
\* whose IPv4 column holds the text "connection refused", which is no address
\* and no domain name (parseNodes takes the column as it is, src/main.go:483).
NodeA == ToxNode(<<"198.51.100.7">>, 33445, "ann")
NodeB == ToxNode(<<"connection", "refused">>, 443, "bob")
Rows == {NodeA, NodeB}

\* A nil pointer and a nil slice; Ptr(v) is a pointer to v.
Nil == <<>>
Ptr(v) == <<v>>

\* error values: the nil error, the errors of src/main.go:265-270 and the
\* errors parseNodes passes on from http.Get, ioutil.ReadAll,
\* strconv.ParseInt and hex.DecodeString.
NoError == "nil"
ParseErrors == {"errHTTP", "errSourceFormat", "errSourceTable", "errParseInt", "errHexDecode"}

\* SeqsUpTo(S, n): the sequences over S of length at most n.
SeqsUpTo(S, n) == UNION {[1..k -> S] : k \in 0..n}

\* What parseNodes returns (src/main.go:433-505): an error and no nodes, or
\* the nodes of the table, row by row, and no error.  The list is empty, with
\* a nil error, when nothing is left of the content between its first and
\* its second-last "|" (src/main.go:457-475).
ParseResults ==
    [nodes : {Nil}, err : ParseErrors] \cup
    [nodes : SeqsUpTo(Rows, MaxNodes), err : {NoError}]

(***************************************************************************)
(* strings                                                                  *)
(***************************************************************************)

\* strings.Contains(s, substr) (src/main.go:519), on sequences of words.
Contains(s, substr) ==
    \E k \in 0..(Len(s) - Len(substr)) :
        \A j \in 1..Len(substr) : s[k + j] = substr[j]

\* strconv.FormatUint(uint64(node.Port), 10) (src/main.go:515).
FormatUint(n) == <<ToString(n)>>

\* address := node.IPv4 + ":" + FormatUint(node.Port) (src/main.go:515).
Address(node) == node.IPv4 \o <<":">> \o FormatUint(node.Port)

(***************************************************************************)
(* net.DialTimeout                                                          *)
(***************************************************************************)

\* A host of one word written with digits and dots is an IP address; any
\* other host has to be looked up by name.
IsIP(host) == host = NodeA.IPv4

\* The ways one dial can end.  "ok": connected.  "refused": the peer
\* rejected the connection.  "timeout": not completed within the timeout.
\* "noroute": no route to the host.  "nohost": the name does not resolve.
DialKinds(host) ==
    IF IsIP(host) THEN {"ok", "refused", "timeout", "noroute"} ELSE {"nohost"}

\* err.Error() of the error DialTimeout returns: "dial tcp <address>:
\* <reason>", and for a failed lookup "dial tcp: lookup <host>: no such host".
ErrorText(kind, node) ==
    CASE kind = "refused" -> <<"dial", "tcp">> \o Address(node) \o <<":", "connection", "refused">>
      [] kind = "timeout" -> <<"dial", "tcp">> \o Address(node) \o <<":", "i/o", "timeout">>
      [] kind = "noroute" -> <<"dial", "tcp">> \o Address(node) \o <<":", "no", "route", "to", "host">>
      [] kind = "nohost"  -> <<"dial", "tcp:", "lookup">> \o node.IPv4 \o <<":", "no", "such", "host">>
      [] OTHER            -> <<>>

\* (conn, err) of net.DialTimeout("tcp", address, timeout) (src/main.go:517)
\* ending in the given way; conn is non-nil exactly when err is nil.
DialTimeout(kind, node, id) ==
    [conn |-> IF kind = "ok" THEN <<id>> ELSE Nil,
     err  |-> IF kind = "ok" THEN [kind |-> NoError, text |-> <<>>]
                             ELSE [kind |-> kind, text |-> ErrorText(kind, node)]]

NilDial == [conn |-> Nil, err |-> [kind |-> NoError, text |-> <<>>]]

(***************************************************************************)
(* State                                                                    *)
(***************************************************************************)

VARIABLES
    op,          \* the public function called
    source,      \* what parseNodes returns in this call
    mpc,         \* main: position in the called function
    nodes,       \* main: nodes (src/main.go:348, 403)
    loopNode,    \* main: the range variable node (src/main.go:353, 412), Nil before the loop
    launched,    \* main: number of go statements executed
    received,    \* main: number of values received from c
    aliveNodes,  \* main: aliveNodes (src/main.go:364)
    inner,       \* FetchAnyAlive: what its call of FetchAlive returned
    ret,         \* what the called function returned
    gpc,         \* goroutine: position
    gnode,       \* goroutine: its parameter node (src/main.go:355, 414), Nil before it starts
    gaddr,       \* goroutine: address in isAlive (src/main.go:515)
    gdial,       \* goroutine: conn, err in isAlive (src/main.go:517)
    galive,      \* goroutine: what isAlive returned
    open,        \* the connections that are open, by goroutine
    gdeadline,   \* goroutine: the time at which the timeout of its dial expires
    now,         \* the time
    contents     \* parseNodes: contents (src/main.go:440), Nil when not read

vars == <<op, source, mpc, nodes, loopNode, launched, received, aliveNodes,
          inner, ret, gpc, gnode, gaddr, gdial, galive, open, gdeadline, now,
          contents>>

mainVars == <<mpc, nodes, loopNode, launched, received, aliveNodes, inner, ret>>
goVars   == <<gpc, gnode, gaddr, gdial, galive, open, gdeadline>>

Ops == {"FetchAlive", "FetchAnyAlive", "FetchFirstAlive"}
Goroutines == 1..MaxNodes

NoReturn == [val |-> Nil, err |-> "unset"]

Init ==
    /\ op \in Ops
    /\ source \in ParseResults
    /\ mpc = "parseNodes"
    /\ nodes = Nil
    /\ loopNode = Nil
    /\ launched = 0
    /\ received = 0
    /\ aliveNodes = Nil
    /\ inner = NoReturn
    /\ ret = NoReturn
    /\ gpc = [g \in Goroutines |-> "none"]
    /\ gnode = [g \in Goroutines |-> Nil]
    /\ gaddr = [g \in Goroutines |-> Nil]
    /\ gdial = [g \in Goroutines |-> NilDial]
    /\ galive = [g \in Goroutines |-> FALSE]
    /\ open = {}
    /\ gdeadline = [g \in Goroutines |-> 0]
    /\ now = 0
    /\ contents = Nil

(***************************************************************************)
(* The goroutines: go func(node ToxNode) { ... }(node)                      *)
(* (src/main.go:355-361 and 414-420)                                        *)
(***************************************************************************)

\* A goroutine whose body closes over the range variable of the loop instead
\* of taking the node as its parameter.
ProbeNode_rangeVariable(g) == loopNode[1]

\* The node the body of the goroutine reads: its own parameter, a copy made
\* by the go statement (src/main.go:355, 361).
ProbeNode(g) == gnode[g][1]

\* isAlive up to the return of net.DialTimeout (src/main.go:515-517): the
\* address is built and the one dial ends in one of the ways it can.
GoDial(g) ==
    /\ gpc[g] = "start"
    /\ \E kind \in DialKinds(ProbeNode(g).IPv4) :
          LET d == DialTimeout(kind, ProbeNode(g), g) IN
          /\ gaddr' = [gaddr EXCEPT ![g] = Address(ProbeNode(g))]
          /\ gdial' = [gdial EXCEPT ![g] = d]
          /\ open' = IF d.conn # Nil THEN open \cup {g} ELSE open
    /\ gpc' = [gpc EXCEPT ![g] = "dialed"]
    /\ UNCHANGED <<op, source, contents, now, mainVars, gnode, gdeadline, galive>>

\* The rest of isAlive (src/main.go:519-527): false for an error whose text
\* does not contain "connection refused"; otherwise the connection, if there
\* is one, is closed and the result is true.  The goroutine then stands at
\* its send on c (src/main.go:356-360).
Unreachable(err) ==
    err.kind # NoError /\ ~Contains(err.text, <<"connection", "refused">>)

\* isAlive returning without closing the connection it was given.
GoIsAlive_noClose(g) ==
    /\ gpc[g] = "dialed"
    /\ galive' = [galive EXCEPT ![g] = ~Unreachable(gdial[g].err)]
    /\ gpc' = [gpc EXCEPT ![g] = "send"]
    /\ UNCHANGED <<op, source, contents, now, mainVars, gnode, gdeadline, gaddr, gdial, open>>

\* A goroutine that sends only when its node is alive and ends without a
\* send otherwise.
GoIsAlive_noNilSend(g) ==
    /\ gpc[g] = "dialed"
    /\ IF Unreachable(gdial[g].err)
       THEN /\ galive' = [galive EXCEPT ![g] = FALSE]
            /\ open' = open
            /\ gpc' = [gpc EXCEPT ![g] = "done"]
       ELSE /\ galive' = [galive EXCEPT ![g] = TRUE]
            /\ open' = IF gdial[g].conn # Nil THEN open \ {g} ELSE open
            /\ gpc' = [gpc EXCEPT ![g] = "send"]
    /\ UNCHANGED <<op, source, contents, now, mainVars, gnode, gdeadline, gaddr, gdial>>

GoIsAlive(g) ==
    /\ gpc[g] = "dialed"
    /\ IF Unreachable(gdial[g].err)
       THEN /\ galive' = [galive EXCEPT ![g] = FALSE]
            /\ open' = open
       ELSE /\ galive' = [galive EXCEPT ![g] = TRUE]
            /\ open' = IF gdial[g].conn # Nil THEN open \ {g} ELSE open
    /\ gpc' = [gpc EXCEPT ![g] = "send"]
    /\ UNCHANGED <<op, source, contents, now, mainVars, gnode, gdeadline, gaddr, gdial>>

\* A goroutine that sends its node whatever isAlive returned.
SendValue_always(g) == Ptr(ProbeNode(g))

\* The value the goroutine sends on c: &node or nil (src/main.go:356-360).
SendValue(g) == IF galive[g] THEN Ptr(ProbeNode(g)) ELSE Nil

(***************************************************************************)
(* FetchAlive (src/main.go:346-373), also as called by FetchAnyAlive        *)
(***************************************************************************)

InFetchAlive == op \in {"FetchAlive", "FetchAnyAlive"}

\* FetchAlive returns (val, err): to the caller of the package, or to
\* FetchAnyAlive (src/main.go:381).
FetchAliveReturns(val, err) ==
    IF op = "FetchAnyAlive"
    THEN /\ inner' = [val |-> val, err |-> err]
         /\ mpc' = "anyAlive"
         /\ ret' = ret
    ELSE /\ ret' = [val |-> val, err |-> err]
         /\ mpc' = "done"
         /\ inner' = inner

\* nodes, err := parseNodes(); if err != nil { return nil, err }; c := make(...)
\* (src/main.go:348-352)
FetchAliveParse ==
    /\ InFetchAlive
    /\ mpc = "parseNodes"
    /\ IF source.err # NoError
       THEN /\ FetchAliveReturns(Nil, source.err)
            /\ nodes' = nodes
       ELSE /\ nodes' = source.nodes
            /\ mpc' = IF Len(source.nodes) = 0 THEN "recv" ELSE "go"
            /\ UNCHANGED <<inner, ret>>
    /\ UNCHANGED <<op, source, contents, now, loopNode, launched, received, aliveNodes, goVars>>

\* One iteration of the range loop (src/main.go:353-363): the range variable
\* takes the next element and the go statement starts a goroutine on a copy
\* of it, with the timeout counting from that moment.
StartGoroutine ==
    LET k == launched + 1 IN
    /\ loopNode' = Ptr(nodes[k])
    /\ launched' = k
    /\ gpc' = [gpc EXCEPT ![k] = "start"]
    /\ gnode' = [gnode EXCEPT ![k] = Ptr(nodes[k])]
    /\ gdeadline' = [gdeadline EXCEPT ![k] = now + Timeout]
    /\ mpc' = IF k = Len(nodes) THEN "recv" ELSE "go"

\* A loop that starts the next probe only when the one before it has
\* returned.
FetchAliveGo_oneAtATime ==
    /\ InFetchAlive
    /\ mpc = "go"
    /\ \A g \in 1..launched : gpc[g] \in {"send", "done"}
    /\ StartGoroutine
    /\ UNCHANGED <<op, source, contents, now, nodes, received, aliveNodes, inner, ret,
                   gaddr, gdial, galive, open>>

FetchAliveGo ==
    /\ InFetchAlive
    /\ mpc = "go"
    /\ StartGoroutine
    /\ UNCHANGED <<op, source, contents, now, nodes, received, aliveNodes, inner, ret,
                   gaddr, gdial, galive, open>>

\* A collecting loop that stops one short, and one that receives at least
\* once.
CollectCount_oneShort == Len(nodes) - 1
CollectCount_atLeastOnce == IF Len(nodes) = 0 THEN 1 ELSE Len(nodes)

\* The number of values FetchAlive receives (src/main.go:365).
CollectCount == Len(nodes)

\* FetchAlive giving up with an error on the first nil it receives.
FetchAliveRecv_abortsOnNil(g) ==
    /\ InFetchAlive
    /\ mpc = "recv"
    /\ received < CollectCount
    /\ gpc[g] = "send"
    /\ received' = received + 1
    /\ gpc' = [gpc EXCEPT ![g] = "done"]
    /\ IF SendValue(g) = Nil
       THEN /\ FetchAliveReturns(Nil, "errAliveTimeout")
            /\ aliveNodes' = aliveNodes
       ELSE /\ aliveNodes' = Append(aliveNodes, SendValue(g)[1])
            /\ UNCHANGED <<mpc, inner, ret>>
    /\ UNCHANGED <<op, source, contents, now, nodes, loopNode, launched,
                   gnode, gdeadline, gaddr, gdial, galive, open>>

\* One iteration of the collecting loop (src/main.go:365-370): goroutine g
\* hands its value over, and a non-nil one is appended.
FetchAliveRecv(g) ==
    /\ InFetchAlive
    /\ mpc = "recv"
    /\ received < CollectCount
    /\ gpc[g] = "send"
    /\ LET candidate == SendValue(g) IN
          aliveNodes' = IF candidate # Nil THEN Append(aliveNodes, candidate[1])
                                           ELSE aliveNodes
    /\ received' = received + 1
    /\ gpc' = [gpc EXCEPT ![g] = "done"]
    /\ UNCHANGED <<op, source, contents, now, mpc, nodes, loopNode, launched, inner, ret,
                   gnode, gdeadline, gaddr, gdial, galive, open>>

\* return aliveNodes, nil (src/main.go:372)
FetchAliveDone ==
    /\ InFetchAlive
    /\ mpc = "recv"
    /\ received >= CollectCount
    /\ FetchAliveReturns(aliveNodes, NoError)
    /\ UNCHANGED <<op, source, contents, now, nodes, loopNode, launched, received, aliveNodes, goVars>>

(***************************************************************************)
(* FetchAnyAlive (src/main.go:380-395)                                      *)
(***************************************************************************)

\* FetchAnyAlive picking among all candidates instead of the alive ones.
FetchAnyAlivePick_anyCandidate ==
    /\ op = "FetchAnyAlive"
    /\ mpc = "anyAlive"
    /\ IF inner.err # NoError
       THEN ret' = [val |-> Nil, err |-> inner.err]
       ELSE IF Len(nodes) = 0
       THEN ret' = [val |-> Nil, err |-> NoError]
       ELSE \E k \in 1..Len(nodes) :
               ret' = [val |-> Ptr(nodes[k]), err |-> NoError]
    /\ mpc' = "done"
    /\ UNCHANGED <<op, source, contents, now, nodes, loopNode, launched, received, aliveNodes,
                   inner, goVars>>

\* After FetchAlive has returned (src/main.go:382-394): its error is passed
\* on, an empty list gives (nil, nil), otherwise rand.Intn picks an index.
FetchAnyAlivePick ==
    /\ op = "FetchAnyAlive"
    /\ mpc = "anyAlive"
    /\ IF inner.err # NoError
       THEN ret' = [val |-> Nil, err |-> inner.err]
       ELSE IF Len(inner.val) = 0
       THEN ret' = [val |-> Nil, err |-> NoError]
       ELSE \E k \in 1..Len(inner.val) :
               ret' = [val |-> Ptr(inner.val[k]), err |-> NoError]
    /\ mpc' = "done"
    /\ UNCHANGED <<op, source, contents, now, nodes, loopNode, launched, received, aliveNodes,
                   inner, goVars>>

(***************************************************************************)
(* FetchFirstAlive (src/main.go:401-428)                                    *)
(***************************************************************************)

\* FetchFirstAlive going on after parseNodes failed.
FetchFirstAliveParse_errorIgnored ==
    /\ op = "FetchFirstAlive"
    /\ mpc = "parseNodes"
    /\ nodes' = source.nodes
    /\ IF Len(source.nodes) = 0
       THEN /\ ret' = [val |-> Nil, err |-> NoError]
            /\ mpc' = "done"
       ELSE /\ ret' = ret
            /\ mpc' = "go"
    /\ UNCHANGED <<op, source, contents, now, loopNode, launched, received, aliveNodes, inner, goVars>>

\* nodes, err := parseNodes() and the two early returns (src/main.go:403-411)
FetchFirstAliveParse ==
    /\ op = "FetchFirstAlive"
    /\ mpc = "parseNodes"
    /\ IF source.err # NoError
       THEN /\ ret' = [val |-> Nil, err |-> source.err]
            /\ mpc' = "done"
            /\ nodes' = nodes
       ELSE /\ nodes' = source.nodes
            /\ IF Len(source.nodes) = 0
               THEN /\ ret' = [val |-> Nil, err |-> NoError]
                    /\ mpc' = "done"
               ELSE /\ ret' = ret
                    /\ mpc' = "go"
    /\ UNCHANGED <<op, source, contents, now, loopNode, launched, received, aliveNodes, inner, goVars>>

\* One iteration of the range loop (src/main.go:412-422).
FetchFirstAliveGo ==
    /\ op = "FetchFirstAlive"
    /\ mpc = "go"
    /\ StartGoroutine
    /\ UNCHANGED <<op, source, contents, now, nodes, received, aliveNodes, inner, ret,
                   gaddr, gdial, galive, open>>

\* FetchFirstAlive receiving from every goroutine and returning what the
\* last one sent.
FetchFirstAliveRecv_readsAll(g) ==
    /\ op = "FetchFirstAlive"
    /\ mpc = "recv"
    /\ gpc[g] = "send"
    /\ received' = received + 1
    /\ gpc' = [gpc EXCEPT ![g] = "done"]
    /\ IF received + 1 = Len(nodes)
       THEN /\ ret' = [val |-> SendValue(g), err |-> NoError]
            /\ mpc' = "done"
       ELSE UNCHANGED <<ret, mpc>>
    /\ UNCHANGED <<op, source, contents, now, nodes, loopNode, launched, aliveNodes, inner,
                   gnode, gdeadline, gaddr, gdial, galive, open>>

\* FetchFirstAlive receiving on until a goroutine sends a node.
FetchFirstAliveRecv_skipsNil(g) ==
    /\ op = "FetchFirstAlive"
    /\ mpc = "recv"
    /\ gpc[g] = "send"
    /\ received' = received + 1
    /\ gpc' = [gpc EXCEPT ![g] = "done"]
    /\ IF SendValue(g) # Nil \/ received + 1 = Len(nodes)
       THEN /\ ret' = [val |-> SendValue(g), err |-> NoError]
            /\ mpc' = "done"
       ELSE UNCHANGED <<ret, mpc>>
    /\ UNCHANGED <<op, source, contents, now, nodes, loopNode, launched, aliveNodes, inner,
                   gnode, gdeadline, gaddr, gdial, galive, open>>

\* candidate := <-c and the return that follows it (src/main.go:423-427).
FetchFirstAliveRecv(g) ==
    /\ op = "FetchFirstAlive"
    /\ mpc = "recv"
    /\ gpc[g] = "send"
    /\ received' = received + 1
    /\ gpc' = [gpc EXCEPT ![g] = "done"]
    /\ ret' = [val |-> SendValue(g), err |-> NoError]
    /\ mpc' = "done"
    /\ UNCHANGED <<op, source, contents, now, nodes, loopNode, launched, aliveNodes, inner,
                   gnode, gdeadline, gaddr, gdial, galive, open>>

(***************************************************************************)
(* Specification                                                            *)
(***************************************************************************)

Next ==
    \/ FetchAliveParse
    \/ FetchAliveGo
    \/ \E g \in Goroutines : FetchAliveRecv(g)
    \/ FetchAliveDone
    \/ FetchAnyAlivePick
    \/ FetchFirstAliveParse
    \/ FetchFirstAliveGo
    \/ \E g \in Goroutines : FetchFirstAliveRecv(g)
    \/ \E g \in Goroutines : GoDial(g)
    \/ \E g \in Goroutines : GoIsAlive(g)

Spec == Init /\ [][Next]_vars

(***************************************************************************)
(* The earlier version (src/main.go:1-256): the table has a status column,  *)
(* and FetchAlive takes its candidates from FetchUp.  Its FetchAlive,       *)
(* FetchAnyAlive and IsAlive are otherwise those modelled above             *)
(* (src/main.go:184-256).                                                   *)
(***************************************************************************)

\* ToxNode of the earlier version (src/main.go:24-33).
ToxNodeStatus(ip4, port, who, status) ==
    [IPv4 |-> ip4, IPv6 |-> <<>>, Port |-> port, PublicKey |-> <<"AB", "CD">>,
     Locale |-> <<"DE">>, Name |-> <<who>>, Status |-> status]

\* The rows of the table: nodes whose status column says UP, and one whose
\* status column does not.
ListedUp == ToxNodeStatus(<<"198.51.100.7">>, 33445, "ann", TRUE)
ListedUpToo == ToxNodeStatus(<<"198.51.100.7">>, 443, "bob", TRUE)
ListedDown == ToxNodeStatus(<<"198.51.100.7">>, 33445, "cat", FALSE)
ListedRows == {ListedUp, ListedUpToo, ListedDown}

\* What FetchAll returns (src/main.go:75-140).
FetchAllResults ==
    [nodes : {Nil}, err : {"errHTTP", "errTable", "errParseInt", "errHexDecode"}] \cup
    [nodes : SeqsUpTo(ListedRows, MaxNodes), err : {NoError}]

\* A FetchUp that passes on every node of the table.
FetchUp_unfiltered(all) == all

\* FetchUp (src/main.go:145-157), given what its call of FetchAll returned.
FetchUp(all) ==
    IF all.err # NoError
    THEN [nodes |-> Nil, err |-> all.err]
    ELSE [nodes |-> SelectSeq(all.nodes, LAMBDA node : node.Status), err |-> NoError]

\* nodes, err := FetchUp(); if err != nil { return nil, err }; c := make(...)
\* (src/main.go:186-190)
FetchAliveFetchUp ==
    /\ InFetchAlive
    /\ mpc = "parseNodes"
    /\ LET up == FetchUp(source) IN
       IF up.err # NoError
       THEN /\ FetchAliveReturns(Nil, up.err)
            /\ nodes' = nodes
       ELSE /\ nodes' = up.nodes
            /\ mpc' = IF Len(up.nodes) = 0 THEN "recv" ELSE "go"
            /\ UNCHANGED <<inner, ret>>
    /\ UNCHANGED <<op, source, contents, now, loopNode, launched, received,
                   aliveNodes, goVars>>

InitUp ==
    /\ op \in {"FetchAlive", "FetchAnyAlive"}
    /\ source \in FetchAllResults
    /\ mpc = "parseNodes"
    /\ nodes = Nil
    /\ loopNode = Nil
    /\ launched = 0
    /\ received = 0
    /\ aliveNodes = Nil
    /\ inner = NoReturn
    /\ ret = NoReturn
    /\ gpc = [g \in Goroutines |-> "none"]
    /\ gnode = [g \in Goroutines |-> Nil]
    /\ gaddr = [g \in Goroutines |-> Nil]
    /\ gdial = [g \in Goroutines |-> NilDial]
    /\ galive = [g \in Goroutines |-> FALSE]
    /\ open = {}
    /\ gdeadline = [g \in Goroutines |-> 0]
    /\ now = 0
    /\ contents = Nil

NextUp ==
    \/ FetchAliveFetchUp
    \/ FetchAliveGo
    \/ \E g \in Goroutines : FetchAliveRecv(g)
    \/ FetchAliveDone
    \/ FetchAnyAlivePick
    \/ \E g \in Goroutines : GoDial(g)
    \/ \E g \in Goroutines : GoIsAlive(g)

SpecUp == InitUp /\ [][NextUp]_vars

(***************************************************************************)
(* parseNodes (src/main.go:433-505), as called by FetchAll                  *)
(* (src/main.go:317-319).                                                   *)
(*                                                                          *)
(* Here a string is the sequence of its characters; a run of characters     *)
(* that is neither "|" nor white space nor looked into may stand as one     *)
(* element, as "x" for any text and "198.51.100.7" for an address.          *)
(***************************************************************************)

\* tableColumns and the column constants (src/main.go:281-294), counted from
\* 0 as in the source.
tableColumns == 6
columnIP4 == 0
columnIP6 == 1
columnPort == 2
columnKey == 3
columnMaintainer == 4
columnLocation == 5

\* strings.Split(s, "|") (src/main.go:451).
RECURSIVE Split(_)
Split(s) ==
    IF \A i \in 1..Len(s) : s[i] # "|"
    THEN <<s>>
    ELSE LET i == CHOOSE j \in 1..Len(s) :
                     s[j] = "|" /\ \A k \in 1..(j - 1) : s[k] # "|"
         IN  <<SubSeq(s, 1, i - 1)>> \o Split(SubSeq(s, i + 1, Len(s)))

\* strings.TrimSpace(cand) (src/main.go:462).
IsSpace(c) == c \in {" ", "\n"}
RECURSIVE TrimSpace(_)
TrimSpace(s) ==
    IF s = <<>> THEN s
    ELSE IF IsSpace(s[1]) THEN TrimSpace(Tail(s))
    ELSE IF IsSpace(s[Len(s)]) THEN TrimSpace(SubSeq(s, 1, Len(s) - 1))
    ELSE s

\* The loop that trims the candidates and drops the empty ones
\* (src/main.go:459-469).
RECURSIVE NonEmptyTrimmed(_)
NonEmptyTrimmed(cands) ==
    IF cands = <<>> THEN <<>>
    ELSE LET cand == TrimSpace(cands[1]) IN
         (IF cand = <<>> THEN <<>> ELSE <<cand>>) \o NonEmptyTrimmed(Tail(cands))

\* strconv.ParseInt(s, 10, 32) (src/main.go:488): an optional sign and then
\* digits only, at least one, denoting a value of 32 bits; ok is false for
\* the error.
DigitChars == <<"0", "1", "2", "3", "4", "5", "6", "7", "8", "9">>
IsDigit(c) == \E d \in 1..10 : DigitChars[d] = c
DigitValue(c) == (CHOOSE d \in 1..10 : DigitChars[d] = c) - 1
RECURSIVE DecimalValue(_, _)
DecimalValue(s, sign) ==
    IF s = <<>> THEN 0
    ELSE 10 * DecimalValue(SubSeq(s, 1, Len(s) - 1), sign)
         + sign * DigitValue(s[Len(s)])
RECURSIVE StripZeros(_)
StripZeros(s) ==
    IF Len(s) > 1 /\ s[1] = "0" THEN StripZeros(Tail(s)) ELSE s
\* The digits denote a value of 32 bits: at most 2147483647, or 2147483648
\* after a minus sign.  Told from the digits, since the value itself is
\* beyond the numbers at hand when it is not.
FitsInt32(digits, sign) ==
    LET d == StripZeros(digits) IN
    \/ Len(d) < 10
    \/ /\ Len(d) = 10
       /\ LET high == DecimalValue(SubSeq(d, 1, 9), 1)
              low  == DigitValue(d[10])
          IN  \/ high < 214748364
              \/ high = 214748364 /\ low <= (IF sign < 0 THEN 8 ELSE 7)
ParseInt32(s) ==
    LET signed == s # <<>> /\ s[1] \in {"+", "-"}
        digits == IF signed THEN Tail(s) ELSE s
        sign   == IF signed /\ s[1] = "-" THEN 0 - 1 ELSE 1
        syntax == digits # <<>> /\ \A i \in 1..Len(digits) : IsDigit(digits[i])
    IN  IF ~syntax THEN [ok |-> FALSE, val |-> 0]
        ELSE IF ~FitsInt32(digits, sign) THEN [ok |-> FALSE, val |-> 0]
        ELSE [ok |-> TRUE, val |-> DecimalValue(digits, sign)]

\* uint16(temp) (src/main.go:494): the low 16 bits.
Uint16(temp) == temp % 65536

\* hex.DecodeString(s) (src/main.go:496): an even number of hexadecimal
\* digits, two to a byte; ok is false for the error.
HexChars == <<"0", "1", "2", "3", "4", "5", "6", "7", "8", "9",
              "A", "B", "C", "D", "E", "F", "a", "b", "c", "d", "e", "f">>
IsHex(c) == \E d \in 1..22 : HexChars[d] = c
HexValue(c) ==
    LET d == CHOOSE e \in 1..22 : HexChars[e] = c
    IN  IF d > 16 THEN d - 7 ELSE d - 1
HexDecode(s) ==
    IF Len(s) % 2 # 0 \/ \E i \in 1..Len(s) : ~IsHex(s[i])
    THEN [ok |-> FALSE, bytes |-> <<>>]
    ELSE [ok |-> TRUE,
          bytes |-> [i \in 1..(Len(s) \div 2) |->
                        16 * HexValue(s[2 * i - 1]) + HexValue(s[2 * i])]]

\* The ToxNode built from the fields of one row (src/main.go:480-501), or the
\* error that ends the parsing.
RowNode(list, index) ==
    LET temp == ParseInt32(list[index + columnPort + 1])
        key  == HexDecode(list[index + columnKey + 1])
    IN  IF ~temp.ok THEN [err |-> "errParseInt", node |-> Nil]
        ELSE IF ~key.ok THEN [err |-> "errHexDecode", node |-> Nil]
        ELSE [err |-> NoError,
              node |-> Ptr([IPv4 |-> list[index + columnIP4 + 1],
                            IPv6 |-> list[index + columnIP6 + 1],
                            Port |-> Uint16(temp.val),
                            PublicKey |-> key.bytes,
                            Maintainer |-> list[index + columnMaintainer + 1],
                            Location |-> list[index + columnLocation + 1]])]

\* The loop over the rows (src/main.go:479-504), from row i on.
RECURSIVE BuildNodes(_, _, _)
BuildNodes(list, i, amount) ==
    IF i >= amount THEN [nodes |-> <<>>, err |-> NoError]
    ELSE LET row  == RowNode(list, i * tableColumns)
             rest == BuildNodes(list, i + 1, amount)
         IN  IF row.err # NoError THEN [nodes |-> Nil, err |-> row.err]
             ELSE IF rest.err # NoError THEN rest
             ELSE [nodes |-> row.node \o rest.nodes, err |-> NoError]

\* The candidates: splitted[1 : len(splitted)-2] (src/main.go:451-457); the
\* slice expression is out of range, and the call panics, for fewer than
\* three parts.
Splitted(strContents) == Split(strContents)
SliceOutOfRange(strContents) == 1 > Len(Splitted(strContents)) - 2
Candidates(strContents) ==
    SubSeq(Splitted(strContents), 2, Len(Splitted(strContents)) - 2)

\* The fields of the table: list (src/main.go:459-469).
Fields(strContents) == NonEmptyTrimmed(Candidates(strContents))

\* A check of the field count that lets every table through.
FieldCountWrong_unchecked(list) == FALSE

\* len(list)%tableColumns != 0 (src/main.go:471).
FieldCountWrong(list) == Len(list) % tableColumns # 0

\* What parseNodes returns for contents on which it does not panic
\* (src/main.go:444-504).
parseNodes(strContents) ==
    IF ~Contains(strContents, <<"|">>)
    THEN [nodes |-> Nil, err |-> "errSourceFormat"]
    ELSE LET list == Fields(strContents) IN
         IF FieldCountWrong(list)
         THEN [nodes |-> Nil, err |-> "errSourceTable"]
         ELSE BuildNodes(list, 0, Len(list) \div tableColumns)

(***************************************************************************)
(* The page of the wiki, written from a table, and FetchAll on it           *)
(***************************************************************************)

\* Largest number of rows of a table written to the page.
MaxRows == 2

\* Greatest length of the pages that hold no table.
MaxShort == 4

\* strconv.Itoa(n): what the wiki's editors write for the number n.
RECURSIVE Decimal(_)
Decimal(n) ==
    IF n < 10 THEN <<DigitChars[n + 1]>>
    ELSE Decimal(n \div 10) \o <<DigitChars[(n % 10) + 1]>>
Written(n) == IF n < 0 THEN <<"-">> \o Decimal(0 - n) ELSE Decimal(n)

\* hex.EncodeToString(bytes), in capitals as on the wiki.
HexEncode(bytes) ==
    [i \in 1..(2 * Len(bytes)) |->
        IF i % 2 = 1 THEN HexChars[(bytes[(i + 1) \div 2] \div 16) + 1]
                     ELSE HexChars[(bytes[i \div 2] % 16) + 1]]

\* The rows the editors may have written: the port as a number, the key as
\* bytes, and what is wrong with the row.  "port": the port column holds
\* text that is no number.  "long": the port is followed by six more digits.
\* "odd": the key lacks its last digit.  "key": the key column holds text
\* that is not hexadecimal.
WrittenPorts == {0, 443, 33445, 65535, 65536, 70000, 0 - 1, 2147483647}
WikiKey == <<171, 205>>
WikiRows ==
    [port : WrittenPorts, key : {WikiKey}, flaw : {"none"}] \cup
    [port : {33445}, key : {WikiKey}, flaw : {"port", "long", "odd", "key"}]

\* The six cells of a row as the page shows them.
Cells(row) ==
    << <<"198.51.100.7">>,
       <<"2001:db8::7">>,
       CASE row.flaw = "port" -> <<"t", "c", "p">>
         [] row.flaw = "long" -> Written(row.port) \o Written(row.port) \o <<"0">>
         [] OTHER -> Written(row.port),
       CASE row.flaw = "odd" -> SubSeq(HexEncode(row.key), 1, 2 * Len(row.key) - 1)
         [] row.flaw = "key" -> <<"Z", "Z">>
         [] OTHER -> HexEncode(row.key),
       <<"ann">>,
       <<"DE">> >>

\* All cells of a table, row by row.
RECURSIVE AllCells(_)
AllCells(table) ==
    IF table = <<>> THEN <<>> ELSE Cells(table[1]) \o AllCells(Tail(table))

\* The text of the cells in the wiki's syntax: "| cell " for every cell and
\* "|", line break to end a row of tableColumns cells.
RECURSIVE TableText(_, _)
TableText(cells, i) ==
    IF i > Len(cells) THEN <<>>
    ELSE <<"|", " ">> \o cells[i] \o <<" ">>
         \o (IF i % tableColumns = 0 THEN <<"|", "\n">> ELSE <<>>)
         \o TableText(cells, i + 1)

\* The page: its start, the table, and what follows the table; "form" is the
\* edit form the wiki serves, where one more "|" follows the table, and
\* "bare" is the table with nothing after it.
PageEnds == {"form", "bare"}
Page(cells, end) ==
    <<"x", "\n">> \o TableText(cells, 1)
    \o (IF Len(cells) % tableColumns = 0 THEN <<>> ELSE <<"|", "\n">>)
    \o (IF end = "form" THEN <<"x", "|", "x">> ELSE <<>>)

\* The tables, and the pages written from them: in full, or with the last
\* cell left out (cut).
Tables == SeqsUpTo(WikiRows, MaxRows)
Pages == [table : Tables, cut : {0, 1}, end : PageEnds]
PageOf(p) ==
    Page(SubSeq(AllCells(p.table), 1, Len(AllCells(p.table)) - p.cut), p.end)
WrittenPages ==
    {[page |-> p, text |-> PageOf(p)] : p \in {q \in Pages : q.cut <= Len(q.table)}}

\* The pages that hold no table.
ShortPages == SeqsUpTo({"|", " ", "x"}, MaxShort)

Unparsed == [nodes |-> Nil, err |-> "unset"]

InitParse ==
    /\ op = "FetchAll"
    /\ contents \in {w.text : w \in WrittenPages} \cup ShortPages
    /\ source = Unparsed
    /\ mpc = "parseNodes"
    /\ nodes = Nil
    /\ loopNode = Nil
    /\ launched = 0
    /\ received = 0
    /\ aliveNodes = Nil
    /\ inner = NoReturn
    /\ ret = NoReturn
    /\ gpc = [g \in Goroutines |-> "none"]
    /\ gnode = [g \in Goroutines |-> Nil]
    /\ gaddr = [g \in Goroutines |-> Nil]
    /\ gdial = [g \in Goroutines |-> NilDial]
    /\ galive = [g \in Goroutines |-> FALSE]
    /\ open = {}
    /\ gdeadline = [g \in Goroutines |-> 0]
    /\ now = 0

\* http.Get or ioutil.ReadAll fails (src/main.go:435-443).
FetchAllNoPage ==
    /\ op = "FetchAll"
    /\ mpc = "parseNodes"
    /\ source' = [nodes |-> Nil, err |-> "errHTTP"]
    /\ ret' = [val |-> Nil, err |-> "errHTTP"]
    /\ mpc' = "done"
    /\ UNCHANGED <<op, contents, now, nodes, loopNode, launched, received,
                   aliveNodes, inner>>
    /\ UNCHANGED goVars

\* The slice expression of src/main.go:457 panics; FetchAll never returns.
FetchAllPanic ==
    /\ op = "FetchAll"
    /\ mpc = "parseNodes"
    /\ Contains(contents, <<"|">>)
    /\ SliceOutOfRange(contents)
    /\ mpc' = "panic"
    /\ UNCHANGED <<op, source, contents, now, nodes, loopNode, launched,
                   received, aliveNodes, inner, ret>>
    /\ UNCHANGED goVars

\* FetchAll returns what parseNodes returns (src/main.go:317-319).
FetchAll ==
    /\ op = "FetchAll"
    /\ mpc = "parseNodes"
    /\ ~(Contains(contents, <<"|">>) /\ SliceOutOfRange(contents))
    /\ source' = parseNodes(contents)
    /\ ret' = [val |-> source'.nodes, err |-> source'.err]
    /\ mpc' = "done"
    /\ UNCHANGED <<op, contents, now, nodes, loopNode, launched, received,
                   aliveNodes, inner>>
    /\ UNCHANGED goVars

NextParse ==
    \/ FetchAllNoPage
    \/ FetchAllPanic
    \/ FetchAll

ParseSpec == InitParse /\ [][NextParse]_vars

(***************************************************************************)
(* The calls in time                                                        *)
(*                                                                          *)
(* Time passes while the page is fetched and while dials are under way; the *)
(* other steps take no time.  A dial ends at the latest when its timeout    *)
(* expires, and ends as a timeout only then.                                *)
(***************************************************************************)

\* net.DialTimeout (src/main.go:517) returning at the time now.
GoDialTimed(g) ==
    /\ GoDial(g)
    /\ gdial'[g].err.kind = "timeout" => now = gdeadline[g]

\* The steps that take no time.
Instant ==
    \/ FetchAliveParse
    \/ FetchAliveGo
    \/ \E g \in Goroutines : FetchAliveRecv(g)
    \/ FetchAliveDone
    \/ FetchAnyAlivePick
    \/ FetchFirstAliveParse
    \/ FetchFirstAliveGo
    \/ \E g \in Goroutines : FetchFirstAliveRecv(g)
    \/ \E g \in Goroutines : GoIsAlive(g)

\* A goroutine is inside net.DialTimeout.
Dialing(g) == gpc[g] = "start"

\* One unit of time passes: during http.Get (src/main.go:435), or when no
\* step that takes no time is possible and no dial under way has reached the
\* end of its timeout.
Tick ==
    /\ \/ mpc = "parseNodes" /\ now < MaxFetchTime
       \/ /\ ~ENABLED Instant
          /\ \E g \in Goroutines : Dialing(g)
          /\ \A g \in Goroutines : Dialing(g) => now < gdeadline[g]
    /\ now' = now + 1
    /\ UNCHANGED <<op, source, contents, mainVars, goVars>>

NextTimed ==
    \/ Instant
    \/ \E g \in Goroutines : GoDialTimed(g)
    \/ Tick

TimedSpec == Init /\ [][NextTimed]_vars

(***************************************************************************)
(* Properties                                                               *)
(***************************************************************************)

\* The call got a table from parseNodes.
Parsed == source.err = NoError
\* The number of candidate records of the call.
N == Len(source.nodes)
\* isAlive has returned in goroutine g.
ProbeReturned(g) == gpc[g] \in {"send", "done"}
\* Goroutine g runs isAlive or waits to send: its result is not yet read.
Pending(g) == gpc[g] \in {"start", "dialed", "send"}
\* FetchAlive has returned, and what it returned.
FetchAliveReturned == InFetchAlive /\ mpc \in {"anyAlive", "done"}
FetchAliveResult == IF op = "FetchAnyAlive" THEN inner ELSE ret
\* The (nil, nil) FetchFirstAlive and FetchAnyAlive return for "none reached".
NoneReached == [val |-> Nil, err |-> NoError]
\* How often r occurs in the list s.
Count(s, r) == Cardinality({k \in 1..Len(s) : s[k] = r})
\* The goroutine whose value FetchFirstAlive received.
FirstArrived == CHOOSE g \in Goroutines : gpc[g] = "done"

\* C1: when FetchAlive returns for a non-empty list of candidates, the error
\* is nil and every record occurs in the returned list exactly as often as it
\* occurs in the input with a probe of its own that returned true, whatever
\* the order in which the results arrived.
C1_AllReturnsExactlyTheAlive ==
    (FetchAliveReturned /\ Parsed /\ N > 0) =>
        /\ FetchAliveResult.err = NoError
        /\ \A r \in Rows :
              Count(FetchAliveResult.val, r) =
                  Cardinality({g \in 1..N : source.nodes[g] = r /\ galive[g]})

\* FetchAlive returned two of three candidates, in an order other than the
\* input's, the third probe having returned false.
C1_Witness ==
    /\ op = "FetchAlive" /\ mpc = "done"
    /\ source.nodes = <<NodeA, NodeB, NodeA>>
    /\ galive = <<TRUE, TRUE, FALSE>>
    /\ ret.val = <<NodeB, NodeA>>

\* C2: FetchFirstAlive receives at most one value from the channel; with the
\* receipt of that first value it has returned, and when the goroutine that
\* sent it found its node alive, the node returned is that goroutine's.
C2_FirstArrivalDecides ==
    op = "FetchFirstAlive" =>
        /\ received <= 1
        /\ received = 1 =>
              /\ mpc = "done"
              /\ galive[FirstArrived] =>
                    ret = [val |-> Ptr(source.nodes[FirstArrived]), err |-> NoError]

\* FetchFirstAlive has returned the node of the second goroutine while the
\* probes of the two others are still running.
C2_Witness ==
    /\ op = "FetchFirstAlive" /\ mpc = "done" /\ N = 3
    /\ gpc[2] = "done" /\ ret.val = Ptr(source.nodes[2])
    /\ gpc[1] = "start" /\ gpc[3] = "dialed"

\* C3: when the first value FetchFirstAlive receives comes from a goroutine
\* whose probe returned false, FetchFirstAlive has returned (nil, nil).
C3_FirstDeadGivesNone ==
    \A g \in Goroutines :
        (op = "FetchFirstAlive" /\ gpc[g] = "done" /\ ~galive[g]) =>
            mpc = "done" /\ ret = NoneReached

\* FetchFirstAlive has returned (nil, nil) on the first result, and a probe
\* that was still running has since found its node alive.
C3_Witness ==
    /\ op = "FetchFirstAlive" /\ mpc = "done" /\ ret = NoneReached /\ N > 1
    /\ \E g, h \in Goroutines :
          /\ gpc[g] = "done" /\ ~galive[g]
          /\ gpc[h] = "send" /\ galive[h]

\* C4: once FetchFirstAlive has returned, every goroutine it started that has
\* not ended can take a step: none stands at a send nobody will receive.
C4_NoProducerLeftBlocked ==
    (op = "FetchFirstAlive" /\ mpc = "done") =>
        \A g \in Goroutines :
            Pending(g) =>
                ENABLED (GoDial(g) \/ GoIsAlive(g) \/ FetchFirstAliveRecv(g))

\* C5: after the launching loop as many goroutines have been started as there
\* are candidates, the g-th for the g-th candidate; the address a goroutine
\* dials is that of its own candidate, and the value it sends when its probe
\* returned true is its own candidate.
C5_EachProbeItsOwnRecord ==
    /\ (Parsed /\ mpc \notin {"parseNodes", "go"}) => launched = N
    /\ \A g \in Goroutines :
          /\ gpc[g] # "none" <=> g <= launched
          /\ gpc[g] # "none" => gnode[g] = Ptr(source.nodes[g])
          /\ gpc[g] \in {"dialed", "send", "done"} =>
                gaddr[g] = Address(source.nodes[g])
          /\ (gpc[g] = "send" /\ galive[g]) => SendValue(g) = Ptr(source.nodes[g])

\* The first goroutine reports its own node alive after the range variable
\* has moved on to another node.
C5_Witness ==
    /\ N > 1 /\ launched = N
    /\ gpc[1] = "send" /\ galive[1]
    /\ loopNode # gnode[1]
    /\ SendValue(1) = Ptr(source.nodes[1])

\* C6: with an empty list of candidates FetchAlive and FetchAnyAlive start no
\* goroutine, never wait for a value on the channel, and return an empty
\* list, respectively no node, with a nil error.
C6_EmptyInputReturnsAtOnce ==
    (InFetchAlive /\ Parsed /\ N = 0) =>
        /\ \A g \in Goroutines : gpc[g] = "none"
        /\ ~(mpc = "recv" /\ received < CollectCount)
        /\ FetchAliveReturned => FetchAliveResult = [val |-> Nil, err |-> NoError]
        /\ mpc = "done" => ret = [val |-> Nil, err |-> NoError]

\* FetchAnyAlive has returned (nil, nil) for an empty table.
C6_Witness ==
    /\ op = "FetchAnyAlive" /\ mpc = "done" /\ Parsed /\ N = 0
    /\ inner = [val |-> Nil, err |-> NoError]
    /\ ret = NoneReached

\* C7: with an empty list of candidates FetchFirstAlive starts no goroutine
\* and returns an error, which sets the outcome apart from the one it gives
\* when a probe answered not alive.
C7_EmptyInputIsAnError ==
    (op = "FetchFirstAlive" /\ Parsed /\ N = 0) =>
        /\ \A g \in Goroutines : gpc[g] = "none"
        /\ mpc # "recv"
        /\ mpc = "done" => (ret.err # NoError /\ ret # NoneReached)

\* C8: isAlive returns true exactly when the dial connected or was refused
\* by the peer, and false for every other error.
C8_AliveIffConnectedOrRefused ==
    \A g \in Goroutines :
        ProbeReturned(g) => (galive[g] <=> gdial[g].err.kind \in {NoError, "refused"})

\* C9: once isAlive has returned in a goroutine, the connection its dial
\* opened is not open.
C9_NoConnectionLeftOpen ==
    \A g \in Goroutines : ProbeReturned(g) => g \notin open

\* A goroutine whose dial connected has returned from isAlive with the
\* connection closed, and waits at its send after FetchFirstAlive returned.
C9_Witness ==
    /\ op = "FetchFirstAlive" /\ mpc = "done"
    /\ \E g \in Goroutines :
          gpc[g] = "send" /\ gdial[g].conn # Nil /\ g \notin open

\* C10: when parseNodes returns an error, no goroutine is started and the
\* called function returns that error and no node; and no call returns an
\* error together with a node or a non-empty list.
C10_ParseErrorAborts ==
    /\ ~Parsed =>
          /\ launched = 0
          /\ \A g \in Goroutines : gpc[g] = "none"
          /\ mpc \in {"parseNodes", "anyAlive", "done"}
          /\ FetchAliveReturned => FetchAliveResult = [val |-> Nil, err |-> source.err]
          /\ mpc = "done" => ret = [val |-> Nil, err |-> source.err]
    /\ (mpc = "done" /\ ret.err # NoError) => ret.val = Nil

\* FetchAnyAlive has returned the error parseNodes gave to FetchAlive.
C10_Witness ==
    /\ op = "FetchAnyAlive" /\ mpc = "done"
    /\ source.err = "errSourceTable"
    /\ ret = [val |-> Nil, err |-> "errSourceTable"]

\* C11: when FetchAnyAlive returns after a successful parse, it returns
\* (nil, nil) exactly when the list FetchAlive gave it is empty; otherwise it
\* returns, with a nil error, a record of that list, which is a candidate
\* whose own probe returned true.
C11_AnyAliveIsOneOfTheAlive ==
    (op = "FetchAnyAlive" /\ mpc = "done" /\ Parsed) =>
        /\ ret = NoneReached <=> Len(inner.val) = 0
        /\ Len(inner.val) > 0 =>
              /\ ret.err = NoError
              /\ \E k \in 1..Len(inner.val) : ret.val = Ptr(inner.val[k])
              /\ \E g \in 1..N : ret.val = Ptr(source.nodes[g]) /\ galive[g]

\* FetchAnyAlive has returned the one alive node of two different candidates.
C11_Witness ==
    /\ op = "FetchAnyAlive" /\ mpc = "done"
    /\ source.nodes = <<NodeA, NodeB>>
    /\ galive[1] = FALSE /\ galive[2] = TRUE
    /\ ret = [val |-> Ptr(NodeB), err |-> NoError]

\* A probe whose dial ran into the timeout.
TimedOut(g) == ProbeReturned(g) /\ gdial[g].err.kind = "timeout"

\* C12: when FetchAlive or FetchFirstAlive returns after every probe ran
\* into the timeout, it returns an error.
C12_TimeoutIsAnError ==
    (op \in {"FetchAlive", "FetchFirstAlive"} /\ mpc = "done" /\ Parsed /\ N > 0
        /\ \A g \in 1..N : TimedOut(g)) =>
        ret.err # NoError

C17_FirstAliveReturnsACandidate ==
    op = "FetchFirstAlive" =>
        /\ (Parsed /\ mpc # "parseNodes") => nodes = source.nodes
        /\ \A g \in Goroutines : gpc[g] # "none" => gnode[g] = Ptr(source.nodes[g])
        /\ (mpc = "done" /\ ret.val # Nil) =>
              /\ ret.err = NoError
              /\ \E g \in 1..N :
                    /\ gpc[g] = "done" /\ galive[g]
                    /\ ret.val = Ptr(source.nodes[g])

\* FetchFirstAlive has returned the second of two different candidates.
C17_Witness ==
    /\ op = "FetchFirstAlive" /\ mpc = "done"
    /\ source.nodes = <<NodeB, NodeA>>
    /\ ret = [val |-> Ptr(NodeA), err |-> NoError]
    /\ gpc[2] = "done" /\ gdial[2].err.kind = "refused"

\* C18: FetchAlive never receives more values than it started goroutines;
\* when it returns it has received one value from every goroutine it
\* started, and each of them has ended; and until the call has returned some
\* step is possible, so that it returns once the probes have.
C18_FetchAliveReceivesAllAndEnds ==
    InFetchAlive =>
        /\ received <= launched
        /\ (FetchAliveReturned /\ Parsed) =>
              /\ received = launched
              /\ \A g \in Goroutines : gpc[g] = (IF g <= launched THEN "done" ELSE "none")
        /\ mpc # "done" => ENABLED Next

\* FetchAlive has returned after three receives with all three goroutines
\* ended.
C18_Witness ==
    /\ op = "FetchAlive" /\ mpc = "done"
    /\ launched = 3 /\ received = 3
    /\ \A g \in 1..3 : gpc[g] = "done"

\* The time at which the launching loop started its first goroutine.
LaunchTime == gdeadline[1] - Timeout

\* C14: in time, every goroutine is started at the same moment, before any
\* time is spent waiting for a result, and FetchAlive and FetchAnyAlive
\* return no later than one timeout after that moment, whatever the number
\* of candidates.
C14_AllWithinOneTimeout ==
    (InFetchAlive /\ Parsed /\ N > 0) =>
        /\ \A g \in 1..launched : gdeadline[g] = LaunchTime + Timeout
        /\ mpc \in {"recv", "anyAlive", "done"} => now <= LaunchTime + Timeout
        /\ FetchAliveReturned => launched = N

\* FetchAlive has returned exactly one timeout after starting three probes,
\* all of which ran into the timeout.
C14_Witness ==
    /\ op = "FetchAlive" /\ mpc = "done" /\ N = 3
    /\ \A g \in 1..3 : gdial[g].err.kind = "timeout"
    /\ LaunchTime = MaxFetchTime
    /\ now = LaunchTime + Timeout

\* The rows of the table whose status is up, in the order of the table.
UpRows == SelectSeq(source.nodes, LAMBDA node : node.Status)

FormPages == {w \in WrittenPages : w.page.end = "form"}

\* A row that is written as it should be: a port of 16 bits and a key in
\* hexadecimal.
WellWritten(row) == row.flaw = "none" /\ row.port \in 0..65535

\* The record that stands for a row.
Record(row) ==
    [IPv4 |-> <<"198.51.100.7">>, IPv6 |-> <<"2001:db8::7">>, Port |-> row.port,
     PublicKey |-> row.key, Maintainer |-> <<"ann">>, Location |-> <<"DE">>]

\* parseNodes has returned for a page that could be read.
ParsedPage == mpc = "done" /\ source.err # "errHTTP"

C19_ParseReturnsRecordsOrAnError ==
    /\ mpc # "panic"
    /\ mpc = "done" =>
           \/ source.err = NoError /\ source.nodes # <<>>
           \/ source.err # NoError /\ source.nodes = Nil

\* C20: the port of a record is the decimal number written in the port
\* column, which lies in 0..65535; a port column that holds a number out of
\* that range or no number yields a parse error, never the number modulo
\* 2^16.
C20_PortIsTheNumberWritten ==
    ParsedPage =>
        \A w \in FormPages :
            (contents = w.text /\ w.page.cut = 0) =>
                LET table == w.page.table IN
                IF \E i \in 1..Len(table) :
                       \/ table[i].flaw \in {"port", "long"}
                       \/ table[i].port \notin 0..65535
                THEN source.err # NoError
                ELSE source.err = NoError =>
                         \A i \in 1..Len(table) : source.nodes[i].Port = table[i].port

====
